---- MODULE Spec2Model ----
(***************************************************************************)
(* Model of quiz_app.py: a Streamlit quiz over two SQLite tables.          *)
(* Every user interaction re-runs main() from top to bottom; each action   *)
(* below is one interaction followed by that complete run.                 *)
(*                                                                         *)
(* Text is a sequence of characters, each a string naming one character;   *)
(* SQL NULL and the empty CSV cell are the empty text.                     *)
(* An optional value (Python None) is the empty sequence, a present value  *)
(* v is <<v>>.                                                             *)
(***************************************************************************)
EXTENDS Integers, Sequences, FiniteSets, Bags, TLC

VARIABLES
    questions,         \* table questions: a set of rows
    results,           \* table results: a bag of rows (no key declared)
    current_question,  \* st.session_state['current_question']: <<>> or <<row>>
    user_answers,      \* st.session_state['user_answers']
    is_correct,        \* st.session_state['is_correct']: "None", "True", "False"
    show_explanation,  \* st.session_state['show_explanation']
    menu,              \* sidebar selectbox value
    radio,             \* radio widget (key='radio'): <<>> or <<[opts, val]>>
    checks,            \* option checkboxes (key=option) that are checked
    flag,              \* checkbox key='flag' is checked
    flagged_only,      \* sidebar checkbox
    incorrect_only,    \* sidebar checkbox
    uploaded_file,     \* st.file_uploader: <<>> or <<what pd.read_csv makes of it>>
    download_data,     \* st.download_button's data: <<>> or <<the CSV file>>
    shown,             \* what the last run of main() put on the screen
    calls,             \* history: data-access functions the last run called
    lastOp,            \* history: the interaction that caused the last run
    lastWrong,         \* history: ids whose most recent grade was incorrect
    graded             \* history: a grade happened since the last fetch

vars == <<questions, results, current_question, user_answers, is_correct,
          show_explanation, menu, radio, checks, flag, flagged_only,
          incorrect_only, uploaded_file, download_data, shown, calls, lastOp,
          lastWrong, graded>>

\* ---------------------------------------------------------------- bounds
MaxQuestions == 2
MaxResults == 2

\* ------------------------------------------------------------- constants
Solve == "solve"
Review == "review"
Import == "import"
Export == "export"
Menus == {Solve, Review, Import, Export}

\* ------------------------------------------------------- pure functions
RECURSIVE SplitFrom(_, _)
SplitFrom(s, cur) ==
    IF s = <<>> THEN <<cur>>
    ELSE IF Head(s) = ";" THEN <<cur>> \o SplitFrom(Tail(s), <<>>)
    ELSE SplitFrom(Tail(s), Append(cur, Head(s)))

\* str.split(';')
Split(s) == SplitFrom(s, <<>>)

\* set(list)
ToSet(s) == {s[i] : i \in DOMAIN s}

\* [x for x in s if x in keep]
RECURSIVE Filter(_, _)
Filter(s, keep) ==
    IF s = <<>> THEN <<>>
    ELSE IF Head(s) \in keep THEN <<Head(s)>> \o Filter(Tail(s), keep)
    ELSE Filter(Tail(s), keep)

RECURSIVE MaxOf(_)
MaxOf(S) ==
    IF S = {} THEN 0
    ELSE LET x == CHOOSE y \in S : TRUE
             m == MaxOf(S \ {x})
         IN IF x > m THEN x ELSE m

Ids(qs) == {q.id : q \in qs}

\* ------------------------------------------------------------- encodings
\* the hiragana letter A, the one character here outside ASCII
Kana == "HIRAGANA_A"

\* a double-byte character other than Kana
Mojibake == "OTHER_DOUBLE_BYTE"

Digits == <<"0", "1", "2", "3", "4", "5", "6", "7", "8", "9">>

AsciiChars == {"A", "B", "C", "E", "N", "Q", ";", " "} \cup ToSet(Digits)

Ascii(c) ==
    CASE c = "A" -> 65 [] c = "B" -> 66 [] c = "C" -> 67 [] c = "E" -> 69
      [] c = "N" -> 78 [] c = "Q" -> 81 [] c = ";" -> 59 [] c = " " -> 32
      [] OTHER -> 47 + (CHOOSE i \in DOMAIN Digits : Digits[i] = c)

\* str.encode(codec) of one character
CharBytes(c, codec) ==
    IF c # Kana THEN <<Ascii(c)>>
    ELSE IF codec = "cp932" THEN <<130, 160>>
    ELSE <<227, 129, 130>>

RECURSIVE Encode(_, _)
Encode(text, codec) ==
    IF text = <<>> THEN <<>>
    ELSE CharBytes(Head(text), codec) \o Encode(Tail(text), codec)

IsLead(b) == b \in (129 .. 159) \cup (224 .. 252)
IsTrail(b) == b \in (64 .. 126) \cup (128 .. 252)

\* bytes.decode('cp932'): ok is FALSE for an illegal or incomplete sequence
RECURSIVE DecodeCp932(_)
DecodeCp932(bytes) ==
    IF bytes = <<>> THEN [ok |-> TRUE, text |-> <<>>]
    ELSE LET b == Head(bytes)
         IN IF b < 128
            THEN LET rest == DecodeCp932(Tail(bytes))
                 IN [ok |-> rest.ok,
                     text |-> <<CHOOSE c \in AsciiChars : Ascii(c) = b>>
                              \o rest.text]
            ELSE IF IsLead(b) /\ Len(bytes) >= 2 /\ IsTrail(bytes[2])
            THEN LET rest == DecodeCp932(Tail(Tail(bytes)))
                 IN [ok |-> rest.ok,
                     text |-> <<IF <<b, bytes[2]>> = <<130, 160>> THEN Kana
                                ELSE Mojibake>> \o rest.text]
            ELSE [ok |-> FALSE, text |-> <<>>]

\* str(n) and int(text) for n >= 0
RECURSIVE IntText(_)
IntText(n) ==
    IF n < 10 THEN <<Digits[n + 1]>>
    ELSE IntText(n \div 10) \o <<Digits[(n % 10) + 1]>>

RECURSIVE ParseInt(_)
ParseInt(text) ==
    IF text = <<>> THEN 0
    ELSE 10 * ParseInt(SubSeq(text, 1, Len(text) - 1))
         + Ascii(text[Len(text)]) - 48

\* -------------------------------------------------------------- CSV files
\* a CSV file is its column names and, per line, the bytes of each cell
TextColumns == <<"question", "options", "correct_answer", "explanation", "note">>

TextCells(r) == <<r.question, r.options, r.correct_answer, r.explanation, r.note>>

RECURSIVE EncodeCells(_, _)
EncodeCells(cells, codec) ==
    IF cells = <<>> THEN <<>>
    ELSE <<Encode(Head(cells), codec)>> \o EncodeCells(Tail(cells), codec)

\* one line of df.to_csv(index=False) for a row, as bytes in codec
CsvLine(r, withId, withFlagged, codec) ==
    EncodeCells((IF withId THEN <<IntText(r.id)>> ELSE <<>>)
                \o TextCells(r)
                \o (IF withFlagged THEN <<IntText(r.flagged)>> ELSE <<>>),
                codec)

RECURSIVE CsvLines(_, _, _, _)
CsvLines(rows, withId, withFlagged, codec) ==
    IF rows = <<>> THEN <<>>
    ELSE <<CsvLine(Head(rows), withId, withFlagged, codec)>>
         \o CsvLines(Tail(rows), withId, withFlagged, codec)

CsvFile(rows, withId, withFlagged, codec) ==
    [columns |-> (IF withId THEN <<"id">> ELSE <<>>) \o TextColumns
                 \o (IF withFlagged THEN <<"flagged">> ELSE <<>>),
     lines |-> CsvLines(rows, withId, withFlagged, codec)]

\* SELECT * FROM questions: the rows in id order
RECURSIVE SelectAll(_)
SelectAll(qs) ==
    IF qs = {} THEN <<>>
    ELSE LET last == CHOOSE q \in qs : \A p \in qs : p.id <= q.id
         IN Append(SelectAll(qs \ {last}), last)

\* df.to_csv(index=False, encoding='cp932') returns a str, which
\* st.download_button encodes as UTF-8: the encoding argument has no effect
export_questions_to_csv(qs) == CsvFile(SelectAll(qs), TRUE, TRUE, "utf-8")

\* pd.read_csv(file, encoding='cp932'): an empty cell is NaN, a missing
\* flagged column takes the table's DEFAULT 0
ReadLine(columns, line) ==
    LET hasId == "id" \in ToSet(columns)
        at(k) == DecodeCp932(line[k + (IF hasId THEN 1 ELSE 0)])
    IN [ok |-> \A k \in DOMAIN line : DecodeCp932(line[k]).ok,
        row |-> [id |-> IF hasId THEN ParseInt(DecodeCp932(line[1]).text) ELSE 0,
                 question |-> at(1).text, options |-> at(2).text,
                 correct_answer |-> at(3).text, explanation |-> at(4).text,
                 note |-> at(5).text,
                 flagged |-> IF "flagged" \in ToSet(columns)
                             THEN ParseInt(DecodeCp932(line[Len(line)]).text)
                             ELSE 0]]

read_csv(file) ==
    LET parsed == [k \in DOMAIN file.lines |-> ReadLine(file.columns, file.lines[k])]
    IN IF \A k \in DOMAIN parsed : parsed[k].ok
       THEN [parses |-> TRUE, hasId |-> "id" \in ToSet(file.columns),
             rows |-> [k \in DOMAIN parsed |-> parsed[k].row]]
       ELSE [parses |-> FALSE, hasId |-> FALSE, rows |-> <<>>]

\* ----------------------------------------------------------- CSV contents
RowSingle == [question |-> <<"Q", "A">>, options |-> <<"A", ";", "B">>,
              correct_answer |-> <<"A">>, explanation |-> <<"E">>,
              note |-> <<>>]
RowMulti == [question |-> <<"Q", "B">>, options |-> <<"B", ";", "A">>,
             correct_answer |-> <<"A", ";", "B", ";", "A">>,
             explanation |-> <<"E">>,
             note |-> <<"N">>]
RowOff == [question |-> <<"Q", "C">>, options |-> <<"A", ";", "B">>,
           correct_answer |-> <<"C">>, explanation |-> <<>>, note |-> <<>>]

CsvRow(r, id, flagged) ==
    [id |-> id, question |-> r.question, options |-> r.options,
     correct_answer |-> r.correct_answer, explanation |-> r.explanation,
     note |-> r.note, flagged |-> flagged]

RowKana == [question |-> <<"Q", Kana>>, options |-> <<Kana, ";", "B">>,
            correct_answer |-> <<Kana>>, explanation |-> <<>>, note |-> <<>>]
RowSpace == [question |-> <<"Q", " ", "A">>, options |-> <<"A", " ", ";", "B">>,
             correct_answer |-> <<"A", " ">>, explanation |-> <<"E">>,
             note |-> <<" ">>]

\* parses: pd.read_csv succeeds; hasId: the CSV has an id column
CsvFiles ==
    { [parses |-> TRUE, hasId |-> FALSE,
       rows |-> <<CsvRow(RowSingle, 0, 0), CsvRow(RowMulti, 0, 0)>>],
      [parses |-> TRUE, hasId |-> TRUE, rows |-> <<CsvRow(RowOff, 1, 1)>>],
      [parses |-> FALSE, hasId |-> FALSE, rows |-> <<>>] }

\* ------------------------------------------------------------ data access
\* mutant of InsertRows: the table has no PRIMARY KEY
RECURSIVE InsertRowsNoKey(_, _, _)
InsertRowsNoKey(qs, rows, hasId) ==
    IF rows = <<>> THEN [ok |-> TRUE, rows |-> qs]
    ELSE LET r == Head(rows)
             id == IF hasId THEN r.id ELSE MaxOf(Ids(qs)) + 1
         IN InsertRowsNoKey(qs \cup {[r EXCEPT !.id = id]}, Tail(rows), hasId)

\* df.to_sql(..., if_exists='append'): one transaction; a row whose id is
\* already taken violates the PRIMARY KEY and the whole insert is rolled back
RECURSIVE InsertRows(_, _, _)
InsertRows(qs, rows, hasId) ==
    IF rows = <<>> THEN [ok |-> TRUE, rows |-> qs]
    ELSE LET r == Head(rows)
             id == IF hasId THEN r.id ELSE MaxOf(Ids(qs)) + 1
         IN IF id \in Ids(qs) THEN [ok |-> FALSE, rows |-> qs]
            ELSE InsertRows(qs \cup {[r EXCEPT !.id = id]}, Tail(rows), hasId)

\* mutant of import_questions_from_csv: the failed insert is not rolled back
import_questions_no_rollback(qs, file) ==
    IF ~file.parses THEN [ok |-> FALSE, rows |-> qs]
    ELSE InsertRows(qs, file.rows, file.hasId)

import_questions_from_csv(qs, file) ==
    IF ~file.parses THEN [ok |-> FALSE, rows |-> qs]
    ELSE LET ins == InsertRows(qs, file.rows, file.hasId)
         IN IF ins.ok THEN ins ELSE [ok |-> FALSE, rows |-> qs]

\* mutant of fetch_random_question: the filters are ORed
fetch_random_question_or(qs, res, fo, io) ==
    {q \in qs :
        (fo \/ io) =>
            \/ (fo /\ q.flagged = 1)
            \/ (io /\ \E r \in BagToSet(res) :
                        r.question_id = q.id /\ r.correct = 0)}

\* the rows the query can return; the empty set is an empty DataFrame
fetch_random_question(qs, res, fo, io) ==
    {q \in qs :
        /\ (fo => q.flagged = 1)
        /\ (io => \E r \in BagToSet(res) :
                     r.question_id = q.id /\ r.correct = 0)}

DeleteResults(res, question_id) ==
    [r \in {x \in BagToSet(res) : x.question_id # question_id} |-> res[r]]

\* results declares no key, so INSERT OR REPLACE finds no conflict and appends
InsertOrReplace(res, question_id, correct) ==
    res (+) SetToBag({[question_id |-> question_id, correct |-> correct]})

\* mutants of save_result
save_result_keep(res, question_id, correct) ==
    IF correct # 0 THEN res
    ELSE InsertOrReplace(res, question_id, correct)

save_result_clear(res, question_id, correct) ==
    IF correct # 0 THEN EmptyBag
    ELSE InsertOrReplace(res, question_id, correct)

save_result_record(res, question_id, correct) ==
    InsertOrReplace(DeleteResults(res, question_id), question_id, correct)

save_result(res, question_id, correct) ==
    IF correct # 0 THEN DeleteResults(res, question_id)
    ELSE InsertOrReplace(res, question_id, correct)

\* mutant of update_flag: the UPDATE has no WHERE clause
update_flag_all(qs, question_id, flagged) ==
    {[q EXCEPT !.flagged = flagged] : q \in qs}

update_flag(qs, question_id, flagged) ==
    {IF q.id = question_id THEN [q EXCEPT !.flagged = flagged] ELSE q : q \in qs}

reset_session ==
    [current_question |-> <<>>, user_answers |-> <<>>,
     is_correct |-> "None", show_explanation |-> FALSE]

Session ==
    [current_question |-> current_question, user_answers |-> user_answers,
     is_correct |-> is_correct, show_explanation |-> show_explanation]

\* ------------------------------------------------------------ the screens
\* value of st.radio(..., options, key='radio'): the widget keeps its value
\* while it is drawn with the same options, else it starts at the first one
RadioValue(radioW, options) ==
    IF radioW # <<>> /\ radioW[1].opts = options THEN radioW[1].val
    ELSE options[1]

\* the answer controls: one radio for a single correct answer, else one
\* checkbox per option
Answers(q, radioW, checksW) ==
    LET options == Split(q.options)
        correct_answers == Split(q.correct_answer)
    IN IF Len(correct_answers) = 1 THEN <<RadioValue(radioW, options)>>
       ELSE Filter(options, checksW)

\* mutant of Grade: the lists are compared
GradeOrdered(answers, correct_answers) == answers = correct_answers

\* set(user_answers) == set(correct_answers)
Grade(answers, correct_answers) == ToSet(answers) = ToSet(correct_answers)

PyBool(b) == IF b THEN "True" ELSE "False"

\* mutants of AnswerButton: a graded question is not graded again; the
\* result is stored under the DataFrame's row index
AnswerButtonOnce(sess, res) ==
    LET q == sess.current_question[1]
        ok == Grade(sess.user_answers, Split(q.correct_answer))
    IN IF sess.show_explanation THEN [sess |-> sess, results |-> res]
       ELSE [sess |-> [sess EXCEPT !.is_correct = PyBool(ok),
                                   !.show_explanation = TRUE],
             results |-> save_result(res, q.id, IF ok THEN 1 ELSE 0)]

AnswerButtonIndex(sess, res) ==
    LET q == sess.current_question[1]
        ok == Grade(sess.user_answers, Split(q.correct_answer))
    IN [sess |-> [sess EXCEPT !.is_correct = PyBool(ok),
                              !.show_explanation = TRUE],
        results |-> save_result(res, 0, IF ok THEN 1 ELSE 0)]

\* the 'answer' button's body
AnswerButton(sess, res) ==
    LET q == sess.current_question[1]
        ok == Grade(sess.user_answers, Split(q.correct_answer))
    IN [sess |-> [sess EXCEPT !.is_correct = PyBool(ok),
                              !.show_explanation = TRUE],
        results |-> save_result(res, q.id, IF ok THEN 1 ELSE 0)]

\* mutant of FlagBox: the box's value is stored
FlagBoxStore(qs, q, flagW) == update_flag(qs, q.id, IF flagW THEN 1 ELSE 0)

\* if st.checkbox('review later', key='flag'): update_flag(id, 1)
FlagBox(qs, q, flagW) == IF flagW THEN update_flag(qs, q.id, 1) ELSE qs

\* the part of main() shared by the Solve and Review screens, from
\* question_data = st.session_state['current_question'] on
QuestionScreen(sess, answerBtn, radioW, checksW, flagW, qs, res, m) ==
    IF sess.current_question = <<>>
    THEN [sess |-> sess, questions |-> qs, results |-> res, radio |-> <<>>,
          checks |-> {}, flag |-> FALSE, answered |-> FALSE,
          shown |-> {IF m = Solve THEN "hint" ELSE "no_match"},
          calls |-> {}]
    ELSE
    LET q == sess.current_question[1]
        options == Split(q.options)
        single == Len(Split(q.correct_answer)) = 1
        s1 == [sess EXCEPT !.user_answers = Answers(q, radioW, checksW)]
        ans == IF answerBtn THEN AnswerButton(s1, res)
               ELSE [sess |-> s1, results |-> res]
        s2 == ans.sess
        box == s2.show_explanation
        qs2 == IF box THEN FlagBox(qs, q, flagW) ELSE qs
    IN [sess |-> s2, questions |-> qs2, results |-> ans.results,
        radio |-> IF single
                  THEN <<[opts |-> options, val |-> RadioValue(radioW, options)]>>
                  ELSE <<>>,
        checks |-> IF single THEN {} ELSE checksW \cap ToSet(options),
        flag |-> box /\ flagW,
        answered |-> answerBtn,
        shown |-> {"question"}
                  \cup (IF box
                        THEN {IF s2.is_correct = "True" THEN "correct"
                              ELSE "incorrect", "explanation", "flag_box"}
                             \cup (IF q.note # <<>> THEN {"note"} ELSE {})
                        ELSE {}),
        calls |-> (IF answerBtn THEN {"save_result"} ELSE {})
                  \cup (IF box /\ flagW THEN {"update_flag"} ELSE {})]

\* mutants of FetchButton: reset only when a row came back; no reset
FetchButtonFound(pick) ==
    IF pick = <<>> THEN Session ELSE [reset_session EXCEPT !.current_question = pick]

FetchButtonNoReset(pick) == [Session EXCEPT !.current_question = pick]

\* the fetch button's body: reset_session(), then the query's row if any
FetchButton(pick) == [reset_session EXCEPT !.current_question = pick]

\* mutant of Picks: the question on screen is not drawn again
PicksNoRepeat(qs, res, fo, io) ==
    LET c == fetch_random_question(qs, res, fo, io)
        d == {q \in c : current_question = <<>> \/ q.id # current_question[1].id}
    IN IF c = {} THEN {<<>>}
       ELSE IF d = {} THEN {<<q>> : q \in c}
       ELSE {<<q>> : q \in d}

Picks(qs, res, fo, io) ==
    LET c == fetch_random_question(qs, res, fo, io)
    IN IF c = {} THEN {<<>>} ELSE {<<q>> : q \in c}

\* one complete run of main() after an interaction: sess is
\* st.session_state when the run starts, m is the menu value,
\* fetchBtn/answerBtn the button pressed, radioW/checksW/flagW/fo/io the
\* widget values the run reads, upload the uploaded file (<<>> for none)
Main(sess, m, fetchBtn, answerBtn, radioW, checksW, flagW, fo, io, upload, op) ==
    /\ menu' = m
    /\ flagged_only' = (m = Review /\ fo)
    /\ incorrect_only' = (m = Review /\ io)
    /\ IF m \in {Solve, Review}
       THEN \E pick \in IF fetchBtn
                        THEN Picks(questions, results, flagged_only',
                                   incorrect_only')
                        ELSE {<<>>} :
              LET s0 == IF fetchBtn THEN FetchButton(pick) ELSE sess
                  out == QuestionScreen(s0, answerBtn, radioW, checksW, flagW,
                                        questions, results, m)
                  q == out.sess.current_question[1]
              IN /\ current_question' = out.sess.current_question
                 /\ user_answers' = out.sess.user_answers
                 /\ is_correct' = out.sess.is_correct
                 /\ show_explanation' = out.sess.show_explanation
                 /\ questions' = out.questions
                 /\ results' = out.results
                 /\ radio' = out.radio
                 /\ checks' = out.checks
                 /\ flag' = out.flag
                 /\ shown' = out.shown
                 /\ uploaded_file' = <<>>
                 /\ download_data' = <<>>
                 /\ calls' = out.calls
                           \cup (IF fetchBtn THEN {"fetch_random_question"} ELSE {})
                 /\ graded' = IF fetchBtn THEN FALSE
                              ELSE IF out.answered THEN TRUE ELSE graded
                 /\ lastWrong' =
                      IF ~out.answered THEN lastWrong
                      ELSE IF out.sess.is_correct = "True"
                      THEN lastWrong \ {q.id}
                      ELSE lastWrong \cup {q.id}
                 /\ lastOp' =
                      [kind |-> op,
                       had |-> IF fetchBtn THEN current_question # <<>>
                               ELSE IF out.answered
                               THEN \E r \in BagToSet(results) :
                                      r.question_id = q.id
                               ELSE FALSE]
       ELSE /\ UNCHANGED <<current_question, user_answers, is_correct,
                           show_explanation, results, lastWrong, graded>>
            /\ uploaded_file' = IF m = Import THEN upload ELSE <<>>
            /\ download_data' =
                   IF m = Export THEN <<export_questions_to_csv(questions)>>
                   ELSE <<>>
            /\ radio' = <<>>
            /\ checks' = {}
            /\ flag' = FALSE
            /\ lastOp' = [kind |-> op, had |-> FALSE]
            /\ IF m = Import
               THEN IF upload = <<>>
                    THEN /\ questions' = questions
                         /\ shown' = {"uploader"}
                         /\ calls' = {}
                    ELSE LET r == import_questions_from_csv(questions, upload[1])
                         IN /\ questions' = r.rows
                            /\ shown' = {"uploader", IF r.ok THEN "import_ok"
                                                     ELSE "import_err"}
                            /\ calls' = {"import_questions_from_csv"}
               ELSE /\ questions' = questions
                    /\ shown' = {"download"}
                    /\ calls' = {"export_questions_to_csv"}

\* ------------------------------------------------------------ interactions
Displayed == menu \in {Solve, Review} /\ current_question # <<>>

\* mutant of SelectMenu: the session is reset on a menu change
SelectMenuReset(m) ==
    /\ m # menu
    /\ Main(reset_session, m, FALSE, FALSE, radio, checks, flag, FALSE, FALSE,
            <<>>, "menu")

SelectMenu(m) ==
    /\ m # menu
    /\ Main(Session, m, FALSE, FALSE, radio, checks, flag, FALSE, FALSE, <<>>, "menu")

ClickFetchSolve ==
    /\ menu = Solve
    /\ Main(Session, menu, TRUE, FALSE, radio, checks, flag, FALSE, FALSE, <<>>, "fetch")

ClickFetchReview ==
    /\ menu = Review
    /\ Main(Session, menu, TRUE, FALSE, radio, checks, flag, flagged_only,
            incorrect_only, <<>>, "fetch")

ClickAnswer ==
    /\ Displayed
    /\ Main(Session, menu, FALSE, TRUE, radio, checks, flag, flagged_only,
            incorrect_only, <<>>, "answer")
    /\ BagCardinality(results') <= MaxResults

SelectRadio(v) ==
    /\ Displayed
    /\ radio # <<>>
    /\ v \in ToSet(radio[1].opts)
    /\ v # radio[1].val
    /\ Main(Session, menu, FALSE, FALSE, <<[radio[1] EXCEPT !.val = v]>>, checks, flag,
            flagged_only, incorrect_only, <<>>, "other")

ToggleOption(o) ==
    /\ Displayed
    /\ radio = <<>>
    /\ o \in ToSet(Split(current_question[1].options))
    /\ Main(Session, menu, FALSE, FALSE, radio,
            IF o \in checks THEN checks \ {o} ELSE checks \cup {o}, flag,
            flagged_only, incorrect_only, <<>>, "other")

ToggleFlag ==
    /\ "flag_box" \in shown
    /\ Main(Session, menu, FALSE, FALSE, radio, checks, ~flag, flagged_only,
            incorrect_only, <<>>, "flag")

ToggleFlaggedOnly ==
    /\ menu = Review
    /\ Main(Session, menu, FALSE, FALSE, radio, checks, flag, ~flagged_only,
            incorrect_only, <<>>, "other")

ToggleIncorrectOnly ==
    /\ menu = Review
    /\ Main(Session, menu, FALSE, FALSE, radio, checks, flag, flagged_only,
            ~incorrect_only, <<>>, "other")

UploadCsv(file) ==
    /\ menu = Import
    /\ Cardinality(questions) + Len(file.rows) <= MaxQuestions
    /\ Main(Session, menu, FALSE, FALSE, radio, checks, flag, FALSE, FALSE, <<file>>,
            "other")

\* the CSV files a user uploads on the Import screen, as bytes
CsvUploads ==
    { CsvFile(<<CsvRow(RowSpace, 0, 0), CsvRow(RowKana, 0, 0)>>, FALSE, FALSE,
              "cp932"),
      CsvFile(<<CsvRow(RowMulti, 3, 0), CsvRow(RowOff, 1, 1)>>, TRUE, TRUE,
              "cp932"),
      CsvFile(<<CsvRow(RowSingle, 0, 0)>>, FALSE, FALSE, "cp932"),
      CsvFile(<<CsvRow(RowOff, 1, 1)>>, TRUE, TRUE, "cp932"),
      CsvFile(<<CsvRow(RowKana, 0, 0)>>, FALSE, FALSE, "utf-8") }

UploadCsvBytes(file) ==
    /\ menu = Import
    /\ Main(Session, menu, FALSE, FALSE, radio, checks, flag, FALSE, FALSE,
            <<read_csv(file)>>, "other")
    /\ Cardinality(questions') <= MaxQuestions

\* the first run of main(): initialize_database() creates empty tables,
\* reset_session() runs, the selectbox shows its first entry
Init ==
    /\ questions = {}
    /\ results = EmptyBag
    /\ current_question = reset_session.current_question
    /\ user_answers = reset_session.user_answers
    /\ is_correct = reset_session.is_correct
    /\ show_explanation = reset_session.show_explanation
    /\ menu = Solve
    /\ radio = <<>>
    /\ checks = {}
    /\ flag = FALSE
    /\ flagged_only = FALSE
    /\ incorrect_only = FALSE
    /\ uploaded_file = <<>>
    /\ download_data = <<>>
    /\ shown = {"hint"}
    /\ calls = {}
    /\ lastOp = [kind |-> "other", had |-> FALSE]
    /\ lastWrong = {}
    /\ graded = FALSE

Options == {<<"A">>, <<"B">>, <<"C">>}

Next ==
    \/ \E m \in Menus : SelectMenu(m)
    \/ ClickFetchSolve
    \/ ClickFetchReview
    \/ ClickAnswer
    \/ \E v \in Options : SelectRadio(v)
    \/ \E o \in Options : ToggleOption(o)
    \/ ToggleFlag
    \/ ToggleFlaggedOnly
    \/ ToggleIncorrectOnly
    \/ \E file \in CsvFiles : UploadCsv(file)

Spec == Init /\ [][Next]_vars

\* ------------------------------------------------------------- properties
HasRow(id) == \E r \in BagToSet(results) : r.question_id = id

RowCount(id) ==
    CopiesIn([question_id |-> id, correct |-> 0], results)
    + CopiesIn([question_id |-> id, correct |-> 1], results)

CorrectAnswers == Split(current_question[1].correct_answer)

SameElements(a, b) ==
    /\ \A i \in DOMAIN a : \E j \in DOMAIN b : a[i] = b[j]
    /\ \A j \in DOMAIN b : \E i \in DOMAIN a : a[i] = b[j]

Flagged(qs, id) == \E q \in qs : q.id = id /\ q.flagged = 1

Phase ==
    IF current_question = <<>> THEN "unfetched"
    ELSE IF show_explanation THEN "graded" ELSE "ungraded"

\* C1: after a grade action on a question with a single correct answer, a
\* submitted set equal to correct_answer gives 'correct' and no results row
\* for the id; an unequal set gives 'incorrect' and a row (id, 0)
C1_GradeSingle ==
    (lastOp.kind = "answer" /\ Len(CorrectAnswers) = 1) =>
        IF ToSet(user_answers) = ToSet(CorrectAnswers)
        THEN is_correct = "True" /\ ~HasRow(current_question[1].id)
        ELSE /\ is_correct = "False"
             /\ [question_id |-> current_question[1].id, correct |-> 0]
                    \in BagToSet(results)

\* a single-answer question that had a missed row was just graded correct
C1_Witness ==
    /\ lastOp.kind = "answer"
    /\ lastOp.had
    /\ Len(CorrectAnswers) = 1
    /\ is_correct = "True"

\* C2: results holds at most one row per question_id
C2_AtMostOneRow == \A q \in questions : RowCount(q.id) <= 1

\* C3: results has a row for an id exactly when the most recent grade of
\* that id was incorrect, and an incorrect_only fetch returns only such ids
C3_RowIffLastWrong ==
    /\ \A q \in questions : HasRow(q.id) <=> q.id \in lastWrong
    /\ {r.question_id : r \in BagToSet(results)} \subseteq lastWrong
    /\ (lastOp.kind = "fetch" /\ incorrect_only /\ current_question # <<>>)
           => current_question[1].id \in lastWrong

\* one id is still missed while another was missed and has just been
\* graded correct
C3_Witness ==
    /\ lastOp.kind = "answer"
    /\ lastOp.had
    /\ is_correct = "True"
    /\ current_question[1].id \notin lastWrong
    /\ lastWrong # {}

\* C4: a fetch returns a stored row that satisfies every filter that is set
C4_FetchFilters ==
    (lastOp.kind = "fetch" /\ current_question # <<>>) =>
        /\ current_question[1] \in questions
        /\ flagged_only => current_question[1].flagged = 1
        /\ incorrect_only =>
               [question_id |-> current_question[1].id, correct |-> 0]
                   \in BagToSet(results)

\* a fetch with both filters set returned a question
C4_Witness ==
    /\ lastOp.kind = "fetch"
    /\ flagged_only
    /\ incorrect_only
    /\ current_question # <<>>

\* C5: a fetch leaves no current question exactly when no stored row passes
\* the filters, and then the screen shows its empty-state message
C5_NoQuestion ==
    lastOp.kind = "fetch" =>
        /\ Len(current_question) <= 1
        /\ current_question = <<>> <=>
               ~\E q \in questions :
                   /\ flagged_only => q.flagged = 1
                   /\ incorrect_only => HasRow(q.id)
        /\ current_question = <<>> =>
               shown = {IF menu = Solve THEN "hint" ELSE "no_match"}
        /\ (incorrect_only /\ results = EmptyBag) => current_question = <<>>

\* a fetch pressed while a question was displayed found nothing
C5_Witness ==
    /\ lastOp.kind = "fetch"
    /\ lastOp.had
    /\ current_question = <<>>
    /\ "no_match" \in shown

\* C6: the grade is 'correct' exactly when the submitted answers and the
\* split correct_answer have the same elements, whatever their order or
\* repetition
C6_SetGrading ==
    lastOp.kind = "answer" =>
        (is_correct = "True" <=> SameElements(user_answers, CorrectAnswers))

\* [B, A] submitted against 'A;B;A' was graded correct
C6_Witness ==
    /\ lastOp.kind = "answer"
    /\ user_answers = <<<<"B">>, <<"A">>>>
    /\ CorrectAnswers = <<<<"A">>, <<"B">>, <<"A">>>>
    /\ is_correct = "True"

\* C7 as stated: after a menu change the session is reset
C7_ResetOnMenu ==
    lastOp.kind = "menu" =>
        /\ current_question = <<>>
        /\ user_answers = <<>>
        /\ is_correct = "None"
        /\ ~show_explanation

\* C7 amended: a menu change leaves the current question, the grading result
\* and the explanation visibility as they were; the fetch buttons reset them
C7_MenuKeepsSession ==
    /\ [][menu' # menu =>
            /\ current_question' = current_question
            /\ is_correct' = is_correct
            /\ show_explanation' = show_explanation]_vars
    /\ [](lastOp.kind = "fetch" => is_correct = "None" /\ ~show_explanation)

\* a question graded on the Solve screen is current on the Review screen
C7_Witness ==
    /\ lastOp.kind = "menu"
    /\ menu = Review
    /\ current_question # <<>>
    /\ show_explanation
    /\ "explanation" \in shown

\* C8: no step clears a flagged bit, and checking the box sets flagged for
\* the current question's id and changes no other row
C8_FlagsOnlySet ==
    [][/\ \A q \in questions : q.flagged = 1 => Flagged(questions', q.id)
       /\ (lastOp'.kind = "flag" /\ flag') =>
              /\ Flagged(questions', current_question'[1].id)
              /\ \A q \in questions :
                     q.id # current_question'[1].id => q \in questions']_vars

\* the box was checked on a question that was fetched unflagged
C8_Witness ==
    /\ lastOp.kind = "flag"
    /\ flag
    /\ current_question[1].flagged = 0
    /\ Flagged(questions, current_question[1].id)
    /\ Cardinality(questions) > 1

\* C9: every row of results has correct = 0
C9_OnlyMissedRows == \A r \in BagToSet(results) : r.correct = 0

\* a correct grade happened while results holds a row
C9_Witness ==
    /\ lastOp.kind = "answer"
    /\ is_correct = "True"
    /\ results # EmptyBag

\* C10: result, explanation and flag box appear, and update_flag is called,
\* only after a grade since the last fetch; a fetch returns the session to
\* ungraded; the phase changes only by a fetch or by ungraded -> graded
C10_Phases ==
    /\ []((show_explanation \/ "explanation" \in shown \/ "flag_box" \in shown
              \/ "update_flag" \in calls)
            => (graded /\ current_question # <<>>))
    /\ [](lastOp.kind = "fetch" =>
            /\ Phase \in {"unfetched", "ungraded"}
            /\ is_correct = "None"
            /\ "explanation" \notin shown)
    /\ [][/\ Phase' # Phase =>
                \/ lastOp'.kind = "fetch"
                \/ /\ lastOp'.kind = "answer"
                   /\ Phase = "ungraded"
                   /\ Phase' = "graded"
          /\ current_question' # current_question => lastOp'.kind = "fetch"]_vars

\* the flag box was checked on a graded question and update_flag ran
C10_Witness ==
    /\ Phase = "graded"
    /\ graded
    /\ "flag_box" \in shown
    /\ "update_flag" \in calls

OtherRows(res, id) ==
    [r \in {x \in BagToSet(res) : x.question_id # id} |-> res[r]]

Unflagged(q) == [q EXCEPT !.flagged = 0]

\* C11: only an import adds questions and nothing removes one; fetch, select
\* and grade runs leave questions as it is; a flag update changes at most the
\* flagged field of the current question; a grade changes results only in
\* the rows of the graded id
C11_Frame ==
    [][/\ "import_questions_from_csv" \notin calls' =>
              Ids(questions') = Ids(questions)
       /\ questions \subseteq questions'
              \/ "update_flag" \in calls'
       /\ lastOp'.kind \in {"fetch", "answer"} => questions' = questions
       /\ "update_flag" \in calls' =>
              \A q \in questions :
                  \/ q \in questions'
                  \/ /\ q.id = current_question'[1].id
                     /\ [q EXCEPT !.flagged = 1] \in questions'
       /\ \A q \in questions :
              \E p \in questions' : Unflagged(p) = Unflagged(q)
       /\ lastOp'.kind = "answer" =>
              OtherRows(results', current_question'[1].id)
                  = OtherRows(results, current_question'[1].id)
       /\ lastOp'.kind # "answer" => results' = results]_vars

\* a grade wrote a row while results holds a row of another id, and the
\* other question is flagged while the graded one is not
C11_Witness ==
    /\ lastOp.kind = "answer"
    /\ is_correct = "False"
    /\ \E r \in BagToSet(results) : r.question_id # current_question[1].id
    /\ \E q \in questions : q.id # current_question[1].id /\ q.flagged = 1
    /\ \E q \in questions : q.id = current_question[1].id /\ q.flagged = 0

\* the Import and Export screens with byte-level CSV files
NextCsv ==
    \/ \E m \in Menus : SelectMenu(m)
    \/ \E file \in CsvUploads : UploadCsvBytes(file)
    \/ ClickFetchSolve

SpecCsv == Init /\ [][NextCsv]_vars

\* the import of file into qs is rejected: the file does not decode, or it
\* brings an id that is taken
Rejected(qs, file) ==
    \/ ~file.parses
    \/ /\ file.hasId
       /\ \/ \E k \in DOMAIN file.rows : file.rows[k].id \in Ids(qs)
          \/ \E j, k \in DOMAIN file.rows : j # k /\ file.rows[j].id = file.rows[k].id

\* C12: a failed import shows the error, inserts no row and stays on the
\* Import screen
C12_FailedImport ==
    [][(uploaded_file' # <<>> /\ "import_questions_from_csv" \in calls') =>
          /\ menu' = Import
          /\ "import_err" \in shown' <=> Rejected(questions, uploaded_file'[1])
          /\ "import_err" \in shown' => questions' = questions
          /\ "import_err" \notin shown' => "import_ok" \in shown']_vars

\* a CSV was rejected at its second row, after a first row that fits
C12_Witness ==
    /\ uploaded_file # <<>>
    /\ "import_err" \in shown
    /\ uploaded_file[1].parses
    /\ Len(uploaded_file[1].rows) = 2
    /\ uploaded_file[1].rows[1].id \notin Ids(questions)
    /\ menu = Import

\* C13: no two rows of questions have the same id
C13_UniqueIds == \A p, q \in questions : p.id = q.id => p = q

\* a CSV whose id column collides with a stored row was uploaded
C13_Witness ==
    /\ uploaded_file # <<>>
    /\ uploaded_file[1].hasId
    /\ \E k \in DOMAIN uploaded_file[1].rows :
           \E q \in questions :
               /\ q.id = uploaded_file[1].rows[k].id
               /\ Unflagged(q) # Unflagged(uploaded_file[1].rows[k])

\* C14: every stored question's correct answers are among its options
C14_CorrectWithinOptions ==
    \A q \in questions :
        ToSet(Split(q.correct_answer)) \subseteq ToSet(Split(q.options))

\* the table that importing the offered download into an empty store gives
Reimported == import_questions_from_csv({}, read_csv(download_data[1])).rows

\* C15: exporting questions and importing the file into an empty store
\* gives the same rows, ids included
C15_RoundTrip == download_data # <<>> => Reimported = questions

Candidates ==
    {q \in questions :
        /\ (menu = Review /\ flagged_only) => q.flagged = 1
        /\ (menu = Review /\ incorrect_only) => HasRow(q.id)}

\* C16: in every state, whatever was fetched before, each row of the
\* filtered candidate set is a possible result of the next fetch
C16_EveryCandidatePossible ==
    /\ menu = Solve =>
           \A q \in Candidates :
               ENABLED (ClickFetchSolve /\ current_question' = <<q>>)
    /\ menu = Review =>
           \A q \in Candidates :
               ENABLED (ClickFetchReview /\ current_question' = <<q>>)

\* a filtered fetch that followed a displayed question returned one of
\* several candidates
C16_Witness ==
    /\ lastOp.kind = "fetch"
    /\ lastOp.had
    /\ menu = Review
    /\ incorrect_only
    /\ current_question # <<>>
    /\ Cardinality(Candidates) >= 2

\* C17: pressing the answer button again on a graded question whose
\* selections are those of the displayed result leaves the result, the
\* explanation visibility and the screen as they are, and runs save_result
\* on results once more
C17_GradeIdempotent ==
    [][(/\ lastOp'.kind = "answer"
        /\ show_explanation
        /\ user_answers' = user_answers
        /\ is_correct = PyBool(SameElements(user_answers, CorrectAnswers))) =>
          /\ current_question' = current_question
          /\ is_correct' = is_correct
          /\ show_explanation' = show_explanation
          /\ shown' = shown
          /\ "save_result" \in calls'
          /\ results' = save_result(results, current_question[1].id,
                                    IF is_correct = "True" THEN 1 ELSE 0)]_vars

\* the answer button was pressed twice on one wrong selection
C17_Witness ==
    /\ lastOp.kind = "answer"
    /\ lastOp.had
    /\ is_correct = "False"
    /\ RowCount(current_question[1].id) = 2

\* C18: a visible explanation comes with a current question and a definite
\* result; without a current question the result is unset, the selections
\* are empty and the explanation is hidden
C18_SessionConsistent ==
    /\ show_explanation =>
           current_question # <<>> /\ is_correct \in {"True", "False"}
    /\ current_question = <<>> =>
           /\ is_correct = "None"
           /\ user_answers = <<>>
           /\ ~show_explanation

\* a fetch that found nothing replaced a graded question
C18_Witness ==
    /\ current_question = <<>>
    /\ lastOp.kind = "fetch"
    /\ lastOp.had
    /\ lastWrong # {}
    /\ menu = Review

\* C19: every question_id in results is the id of a stored question
C19_ResultsReferQuestions ==
    \A r \in BagToSet(results) : r.question_id \in Ids(questions)

\* results holds rows of two stored questions
C19_Witness ==
    /\ Cardinality({r.question_id : r \in BagToSet(results)}) = 2
    /\ Cardinality(questions) = 2

====
